---- MODULE Spec2Model ----
(***************************************************************************)
(* Silhouette Dual View add-on (src/__init__.py): the two operators, their *)
(* deferred timer callbacks and the View-menu hook, run against a host     *)
(* whose windows, areas and operators answer nondeterministically.         *)
(*                                                                         *)
(* Host state that the add-on reads or writes:                             *)
(*   windows  window id -> width, height, x, y, statusbar, phase           *)
(*   areas    area id   -> owning window, type, geometry, WINDOW region,   *)
(*                         active space (shading, shown UI, axis, persp)   *)
(* The invocation context (mode, active object, area under the mouse) is   *)
(* an input of each invocation.                                            *)
(*   setupTimer, postFix     the registered timer callbacks                *)
(*   last     what the step that led to this state did (history)           *)
(* window_new returns before the host has built the window.  A window is   *)
(* first "opening" (its areas are listed, area_split raises), then in      *)
(* "layout" (area_split works, a new area has no WINDOW region yet), then  *)
(* "ready".  WINDOW regions of existing areas appear on their own.         *)
(* view_distance and view_location are not part of the modelled state.     *)
(***************************************************************************)
EXTENDS Integers, Sequences, FiniteSets, TLC

VARIABLES windows, areas, setupTimer, postFix, last

vars == <<windows, areas, setupTimer, postFix, last>>

\* ---- bounds ----
MaxAreas == 4      \* area ids the host can hand out
MaxWindows == 1    \* windows that window_new can open
AreaSize == 2      \* width and height of a full-window area, in split units

\* ---- host vocabulary ----
UIFlags == {"show_region_header", "show_region_tool_header", "show_region_toolbar",
            "show_region_ui", "show_gizmo", "show_gizmo_navigate", "show_overlays"}

AllFlags == UIFlags \cup {"show_region_hud"}

\* what a host operator may switch back on while it runs
ReenableChoices == {{}, AllFlags}

Max(a, b) == IF a >= b THEN a ELSE b

DefaultSpace == [shading |-> "DEFAULT", shown |-> AllFlags, axis |-> "USER",
                 persp |-> "PERSP", req |-> "NONE"]

NoLast == [op |-> "init", ret |-> "NONE", note |-> "", win |-> 0, a |-> 0, b |-> 0, r |-> 0,
           left |-> 0, new2 |-> 0, inv |-> 0, pre |-> {}, pmode |-> "NONE", pactive |-> FALSE, ptype |-> "NONE"]

AreasOf(ars, w) == {a \in DOMAIN ars : ars[a].win = w}

\* ---- helpers (lines 17-150) ----

\* first VIEW_3D area of the window's screen, 0 when there is none
FindWindowView3dArea(ars, w) ==
  LET c == {a \in AreasOf(ars, w) : ars[a].type = "VIEW_3D"}
  IN IF c = {} THEN 0 ELSE CHOOSE a \in c : \A o \in c : a <= o

\* next(r for r in a.regions if r.type == 'WINDOW')
GetWinRegion(ars, a) == ars[a].regionWin

\* the host's view3d.view_axis under the override, on an area with a WINDOW
\* region: sets the view axis, may re-enable UI
ViewAxisOp(sp, axis) ==
  {[sp EXCEPT !.axis = axis, !.shown = @ \cup re] : re \in ReenableChoices}

\* the host's view3d.view_selected: frames the selection, may re-enable UI
ViewSelectedOp(sp) ==
  {[sp EXCEPT !.shown = @ \cup re] : re \in ReenableChoices}

ApplyViewAxis(sp, axis) ==
  ViewAxisOp([sp EXCEPT !.persp = "ORTHO", !.req = axis], axis)

SilhouetteShading(sp) == [sp EXCEPT !.shading = "SILHOUETTE"]

HideUI(sp) == [sp EXCEPT !.shown = @ \ AllFlags]

ReHideUI(sp) == [sp EXCEPT !.shown = @ \ UIFlags]

ConfigureSilhouetteArea(ar, axis) ==
  LET a0 == [ar EXCEPT !.type = "VIEW_3D"]
      s0 == HideUI(SilhouetteShading(a0.space))
      S1 == ApplyViewAxis(s0, axis)
      S2 == UNION {ViewSelectedOp(s) : s \in S1}
      S3 == UNION {ApplyViewAxis(s, axis) : s \in S2}
  IN {[a0 EXCEPT !.space = ReHideUI(s)] : s \in S3}

\* ---- the host's screen.area_split ----

FreeId(ars) ==
  LET f == (1..MaxAreas) \ DOMAIN ars
  IN IF f = {} THEN 0 ELSE CHOOSE n \in f : \A o \in f : n <= o

Splittable(ars, a, dir) ==
  /\ FreeId(ars) # 0
  /\ IF dir = "VERTICAL" THEN ars[a].w >= 2 ELSE ars[a].h >= 2

\* the screen after a split that made a new area; newHigh: the new area takes
\* the higher coordinate (right / top); reg: the new area has a WINDOW region.
\* The new area is a copy of the split one, its space settings included.
SplitAreas(ars, a, dir, newHigh, reg) ==
  LET o == ars[a]
      n == FreeId(ars)
      lo == IF dir = "VERTICAL" THEN o.w \div 2 ELSE o.h \div 2
      hi == IF dir = "VERTICAL" THEN o.w - lo ELSE o.h - lo
      lowPart == IF dir = "VERTICAL" THEN [o EXCEPT !.w = lo] ELSE [o EXCEPT !.h = lo]
      highPart == IF dir = "VERTICAL" THEN [o EXCEPT !.x = o.x + lo, !.w = hi]
                                      ELSE [o EXCEPT !.y = o.y + lo, !.h = hi]
      keep == IF newHigh THEN lowPart ELSE highPart
      made == [(IF newHigh THEN highPart ELSE lowPart) EXCEPT !.regionWin = reg]
  IN [ars EXCEPT ![a] = keep] @@ (n :> made)

\* every result of both attempts (factor, then cursor) at one split:
\* "raise" both attempts raised, "noarea" it returned without a new area,
\* "new" a new area exists.  An area too small to split, or a host with no
\* area left, makes the operator raise or return without splitting.
AreaSplit(ars, a, dir, phase) ==
  IF phase = "opening" THEN {[kind |-> "raise", ars |-> ars, new |-> 0]}
  ELSE IF ~Splittable(ars, a, dir)
       THEN {[kind |-> k, ars |-> ars, new |-> 0] : k \in {"raise", "noarea"}}
  ELSE {[kind |-> "new", ars |-> SplitAreas(ars, a, dir, nh, phase = "ready"),
         new |-> FreeId(ars)] : nh \in BOOLEAN}

\* ---- threading a nondeterministic result through the screen ----

SpaceOn(ars, a, S) == {[ars EXCEPT ![a].space = s] : s \in S}

AreaOn(ars, a, R) == {[ars EXCEPT ![a] = r] : r \in R}

ApplyOn(ars, a, axis) == SpaceOn(ars, a, ApplyViewAxis(ars[a].space, axis))

ConfigureOn(ars, a, axis) == AreaOn(ars, a, ConfigureSilhouetteArea(ars[a], axis))

\* _configure_silhouette_area on top and bottom, then _apply_view_axis on each
ConfigureTopBottom(ars, top, bottom) ==
  LET S1 == ConfigureOn(ars, top, "FRONT")
      S2 == UNION {ConfigureOn(s, bottom, "RIGHT") : s \in S1}
      S3 == UNION {ApplyOn(s, top, "FRONT") : s \in S2}
  IN UNION {ApplyOn(s, bottom, "RIGHT") : s \in S3}

\* ---- history of the last step ----

Last(op, ret, note, w, a, b, r, ctx) ==
  [op |-> op, ret |-> ret, note |-> note, win |-> w, a |-> a, b |-> b, r |-> r,
   left |-> 0, new2 |-> 0, inv |-> ctx.area,
   pre |-> DOMAIN areas, pmode |-> ctx.mode, pactive |-> ctx.active,
   ptype |-> IF ctx.area = 0 THEN "NONE" ELSE areas[ctx.area].type]

\* a step without an invocation context (a timer callback)
NoContext == [mode |-> "NONE", active |-> FALSE, area |-> 0]

\* ---- context ----

\* what the host can pass as `context`
Contexts == [mode : {"OBJECT", "EDIT"}, active : BOOLEAN, area : DOMAIN areas \cup {0}]

ContextWindow(ctx) == IF ctx.area = 0 THEN 0 ELSE areas[ctx.area].win

\* ---- new-window operator (lines 204-322) ----

PollDual(ctx) == ctx.mode = "OBJECT" /\ ctx.active

MinWidth == 480
MinHeight == 360
WindowOffset == 80

FreeWindow ==
  LET f == (1..MaxWindows) \ DOMAIN windows
  IN IF f = {} THEN 0 ELSE CHOOSE n \in f : \A o \in f : n <= o

\* the host's wm.window_new when it does not raise: a new window, opening,
\* whose screen copies an area of the invoking window's screen
WindowNew(orig) ==
  IF FreeWindow = 0 \/ FreeId(areas) = 0 THEN {}
  ELSE {[new |-> FreeWindow,
         windows |-> windows @@ (FreeWindow :> [windows[orig] EXCEPT !.phase = "opening"]),
         areas |-> areas @@ (FreeId(areas) :>
                      [areas[src] EXCEPT !.win = FreeWindow, !.x = 0, !.y = 0,
                                         !.w = AreaSize, !.h = AreaSize, !.regionWin = FALSE])] :
           src \in AreasOf(areas, orig)}

\* lines 228-238 up to the k-th assignment, where the block raised (0: at once,
\* the host's window geometry being read-only; 5: it did not)
ResizeUpTo(nw, ow, k) ==
  LET s1 == IF k >= 1 THEN [nw EXCEPT !.width = Max(MinWidth, ow.width \div 4)] ELSE nw
      s2 == IF k >= 2 THEN [s1 EXCEPT !.height = Max(MinHeight, ow.height \div 4)] ELSE s1
      s3 == IF k >= 3 THEN [s2 EXCEPT !.x = ow.x + WindowOffset] ELSE s2
      s4 == IF k >= 4 THEN [s3 EXCEPT !.y = ow.y - WindowOffset] ELSE s3
  IN IF k >= 5 THEN [s4 EXCEPT !.statusbar = FALSE] ELSE s4

\* lines 228-245: the resize block and the second show_statusbar assignment
ResizeNewWindow(nw, ow) ==
  {[ResizeUpTo(nw, ow, k) EXCEPT !.statusbar = FALSE] : k \in {0, 5}}

DualResult_CancelOnTimer(windowNewRaised, regOK) ==
  IF windowNewRaised \/ ~regOK THEN "CANCELLED" ELSE "FINISHED"

DualResult(windowNewRaised, regOK) ==
  IF windowNewRaised THEN "CANCELLED" ELSE "FINISHED"

DualExecute(ctx) ==
  /\ PollDual(ctx)
  /\ \/ /\ last' = Last("dual_execute", DualResult(TRUE, FALSE), "window_new raised",
                     0, 0, 0, 0, [ctx EXCEPT !.area = 0])
        /\ UNCHANGED <<windows, areas, setupTimer, postFix>>
     \/ \E nw \in WindowNew(ContextWindow(ctx)) :
          \E rz \in ResizeNewWindow(nw.windows[nw.new], windows[ContextWindow(ctx)]) :
            \E regOK \in BOOLEAN :
              /\ windows' = [nw.windows EXCEPT ![nw.new] = rz]
              /\ areas' = nw.areas
              /\ setupTimer' = setupTimer @@ (nw.new :> IF regOK THEN "scheduled" ELSE "none")
              /\ last' = Last("dual_execute", DualResult(FALSE, regOK),
                              IF regOK THEN "registered" ELSE "register raised",
                              nw.new, 0, 0, 0, [ctx EXCEPT !.area = 0])
              /\ UNCHANGED postFix

\* lines 291-302
ReassertUI_SkipSidebar(sp) == [sp EXCEPT !.shown = @ \ (UIFlags \ {"show_region_ui"})]

ReassertUI(sp) == [sp EXCEPT !.shown = @ \ UIFlags]

\* lines 277-280: (top, bottom) of the split area and the new one
TopBottom_Swapped(ars, area_a, new_area) ==
  IF ars[area_a].y >= ars[new_area].y THEN <<new_area, area_a>> ELSE <<area_a, new_area>>

TopBottom(ars, area_a, new_area) ==
  IF ars[area_a].y >= ars[new_area].y THEN <<area_a, new_area>> ELSE <<new_area, area_a>>

\* what the callback returns once both areas are configured
SetupReturn_Retry == "retry"

SetupReturn == "done"

\* the timer callback _deferred_setup of window w (lines 248-316);
\* "retry" is the return value 0.05, "done" is None
DeferredSetup(w) ==
  /\ w \in DOMAIN setupTimer
  /\ setupTimer[w] = "scheduled"
  /\ LET area_a == FindWindowView3dArea(areas, w)
         phase == windows[w].phase
         Retry(ars, note) ==
           /\ areas' = ars
           /\ last' = Last("deferred_setup", "retry", note, w, 0, 0, 0, NoContext)
           /\ UNCHANGED <<windows, setupTimer, postFix>>
     IN IF area_a = 0 \/ ~GetWinRegion(areas, area_a)
        THEN Retry(areas, "no area or region")
        ELSE \E sp \in AreaSplit(areas, area_a, "HORIZONTAL", phase) :
               IF sp.kind = "raise" THEN Retry(areas, "split raised")
               ELSE IF sp.kind = "noarea" THEN Retry(areas, "no new area")
               ELSE LET tb == TopBottom(sp.ars, area_a, sp.new)
                    IN IF ~GetWinRegion(sp.ars, tb[1]) \/ ~GetWinRegion(sp.ars, tb[2])
                       THEN Retry(sp.ars, "no region in sub-area")
                       ELSE \E c \in ConfigureTopBottom(sp.ars, tb[1], tb[2]) :
                              /\ areas' = [c EXCEPT ![tb[1]].space = ReassertUI(@),
                                                    ![tb[2]].space = ReassertUI(@)]
                              /\ setupTimer' = [setupTimer EXCEPT ![w] =
                                                  IF SetupReturn = "done" THEN "stopped" ELSE @]
                              /\ last' = Last("deferred_setup", SetupReturn, "configured",
                                              w, tb[1], tb[2], 0, NoContext)
                              /\ UNCHANGED <<windows, postFix>>


\* ---- split-current operator (lines 326-456) ----

PollSplit_AnyArea(ctx) ==
  ctx.mode = "OBJECT" /\ ctx.area # 0 /\ ctx.active

PollSplit(ctx) ==
  ctx.mode = "OBJECT" /\ ctx.area # 0 /\ areas[ctx.area].type = "VIEW_3D" /\ ctx.active

Abs(n) == IF n < 0 THEN -n ELSE n

KeyLt(k1, k2) == k1[1] < k2[1] \/ (k1[1] = k2[1] /\ k1[2] < k2[2])

\* Python's sorted(seq, key=...): stable, ascending
RECURSIVE SortByKey(_, _)
SortByKey(seq, key) ==
  IF seq = <<>> THEN <<>>
  ELSE LET init == SortByKey(SubSeq(seq, 1, Len(seq) - 1), key)
           e == seq[Len(seq)]
           n == Cardinality({i \in 1..Len(init) : ~KeyLt(key[e], key[init[i]])})
       IN SubSeq(init, 1, n) \o <<e>> \o SubSeq(init, n + 1, Len(init))

\* Python's max(seq, key=...): the first of the greatest
MaxByKey(seq, key) ==
  seq[CHOOSE i \in 1..Len(seq) :
        /\ \A j \in 1..Len(seq) : ~KeyLt(key[seq[i]], key[seq[j]])
        /\ \A j \in 1..(i - 1) : KeyLt(key[seq[j]], key[seq[i]])]

XKey(ars) == [a \in DOMAIN ars |-> <<ars[a].x, 0>>]

YDescKey(ars) == [a \in DOMAIN ars |-> <<-ars[a].y, 0>>]

ProximityKey(ars, ref) ==
  [a \in DOMAIN ars |-> <<Abs(ars[a].x - ars[ref].x), -ars[a].y>>]

\* lines 370-375: <<area_left, area_right>>
PickLeftRight(ars, area, new_areas) ==
  LET area_right == MaxByKey(new_areas, XKey(ars))
      area_left == IF ars[area].x <= ars[area_right].x THEN area ELSE area_right
      sorted_by_x == SortByKey(<<area>> \o new_areas, XKey(ars))
  IN IF area_right = area_left
     THEN <<sorted_by_x[1], sorted_by_x[Len(sorted_by_x)]>>
     ELSE <<area_left, area_right>>

\* line 399: the VIEW_3D areas among new_areas2 + [area_left], nearest first
LeftSubs(ars, new_areas2, area_left) ==
  LET all == new_areas2 \o <<area_left>>
      v3d == SelectSeq(all, LAMBDA a : ars[a].type = "VIEW_3D")
      srt == SortByKey(v3d, ProximityKey(ars, area_left))
  IN SubSeq(srt, 1, IF Len(srt) < 2 THEN Len(srt) ELSE 2)

\* line 404: <<left_top, left_bottom>>
SortTopBottom_Ascending(ars, left_subs) == SortByKey(left_subs, [a \in DOMAIN ars |-> <<ars[a].y, 0>>])

SortTopBottom(ars, left_subs) == SortByKey(left_subs, YDescKey(ars))

\* lines 414-418, the areas the operator configures
ConfiguredPair_RightArea(left_top, left_bottom, area_right) == <<left_top, area_right>>

ConfiguredPair(left_top, left_bottom, area_right) == <<left_top, left_bottom>>

SplitCurrentExecute(ctx) ==
  /\ PollSplit(ctx)
  /\ LET area == ctx.area
         win == areas[area].win
         phase == windows[win].phase
         Cancel(ars, note) ==
           /\ areas' = ars
           /\ last' = Last("split_execute", "CANCELLED", note, win, 0, 0, 0, ctx)
           /\ UNCHANGED <<windows, setupTimer, postFix>>
     IN IF ~GetWinRegion(areas, area)
        THEN Cancel(areas, "no WINDOW region")
        ELSE \E s1 \in AreaSplit(areas, area, "VERTICAL", phase) :
          IF s1.kind = "raise" THEN Cancel(areas, "split raised")
          ELSE IF s1.kind = "noarea" THEN Cancel(areas, "no new area")
          ELSE
            LET lr == PickLeftRight(s1.ars, area, <<s1.new>>)
                area_left == lr[1]
                area_right == lr[2]
            IN IF ~GetWinRegion(s1.ars, area_left)
               THEN Cancel(s1.ars, "no sub-areas")
               ELSE \E s2 \in AreaSplit(s1.ars, area_left, "HORIZONTAL", phase) :
                 IF s2.kind = "raise" THEN Cancel(s1.ars, "left split raised")
                 ELSE IF s2.kind = "noarea" THEN Cancel(s1.ars, "no sub-areas")
                 ELSE
                   LET left_subs == LeftSubs(s2.ars, <<s2.new>>, area_left)
                   IN IF Len(left_subs) < 2 THEN Cancel(s2.ars, "not two VIEW_3D areas")
                      ELSE
                        LET tb == SortTopBottom(s2.ars, left_subs)
                            cp == ConfiguredPair(tb[1], tb[2], area_right)
                        IN IF ~GetWinRegion(s2.ars, tb[1]) \/ ~GetWinRegion(s2.ars, tb[2])
                           THEN Cancel(s2.ars, "no WINDOW regions")
                           ELSE \E c \in ConfigureTopBottom(s2.ars, cp[1], cp[2]) :
                                  \E regOK \in BOOLEAN :
                                    /\ areas' = c
                                    /\ postFix' = IF regOK
                                                  THEN postFix \cup {[win |-> win, top |-> cp[1],
                                                          bottom |-> cp[2], right |-> area_right,
                                                          inv |-> area, pre |-> DOMAIN areas]}
                                                  ELSE postFix
                                    /\ last' = [Last("split_execute", "FINISHED",
                                                     IF regOK THEN "registered" ELSE "register raised",
                                                     win, cp[1], cp[2], area_right, ctx)
                                                  EXCEPT !.left = area_left, !.new2 = s2.new]
                                    /\ UNCHANGED <<windows, setupTimer>>

\* the view rotation turned +90 degrees about Z (line 433-434)
RotZ90(axis) ==
  CASE axis = "FRONT" -> "RIGHT"
    [] axis = "RIGHT" -> "BACK"
    [] axis = "BACK" -> "LEFT"
    [] axis = "LEFT" -> "FRONT"
    [] axis = "USER" -> "USER_Z90"
    [] OTHER -> "USER"

\* lines 427-437
FixSameRotation(ars, top, bottom) ==
  IF ars[top].space.axis = ars[bottom].space.axis
  THEN [ars EXCEPT ![bottom].space.axis = RotZ90(ars[top].space.axis),
                   ![bottom].space.persp = "ORTHO"]
  ELSE ars

\* lines 439-447
PostFixHideUI(sp) == [sp EXCEPT !.shown = @ \ UIFlags]

\* the timer callback _post_fix of one run (lines 421-450); it returns None
PostFix(c) ==
  /\ c \in postFix
  /\ LET S1 == ApplyOn(areas, c.top, "FRONT")
         S2 == UNION {ApplyOn(s, c.bottom, "RIGHT") : s \in S1}
     IN \E s \in S2 :
          LET f == FixSameRotation(s, c.top, c.bottom)
          IN areas' = [f EXCEPT ![c.top].space = PostFixHideUI(@),
                                ![c.bottom].space = PostFixHideUI(@)]
  /\ postFix' = postFix \ {c}
  /\ last' = [Last("post_fix", "done", "", c.win, c.top, c.bottom, c.right, NoContext)
                EXCEPT !.pre = c.pre, !.inv = c.inv]
  /\ UNCHANGED <<windows, setupTimer>>

\* ---- menu (lines 461-464) ----

DrawsEntry(ctx) == ctx.mode = "OBJECT"

DrawInViewMenu(ctx) ==
  /\ last' = Last("draw_menu", IF DrawsEntry(ctx) THEN "entry" ELSE "nothing", "", 0, 0, 0, 0, ctx)
  /\ UNCHANGED <<windows, areas, setupTimer, postFix>>

\* ---- the host and its user ----

HostStep == Last("host", "NONE", "", 0, 0, 0, 0, NoContext)

\* the host gets on with building a window
HostWindowReady(w) ==
  /\ w \in DOMAIN windows
  /\ windows[w].phase # "ready"
  /\ windows' = [windows EXCEPT ![w].phase = IF @ = "opening" THEN "layout" ELSE "ready"]
  /\ last' = HostStep
  /\ UNCHANGED <<areas, setupTimer, postFix>>

HostExposeRegion(a) ==
  /\ a \in DOMAIN areas
  /\ ~areas[a].regionWin
  /\ areas' = [areas EXCEPT ![a].regionWin = TRUE]
  /\ last' = HostStep
  /\ UNCHANGED <<windows, setupTimer, postFix>>

\* ---- specification ----

\* the main window, built, with two editors side by side: the left one a 3D
\* view or not, the right one a properties editor
Init ==
  /\ windows = (0 :> [width |-> 2560, height |-> 900, x |-> 100, y |-> 100,
                      statusbar |-> TRUE, phase |-> "ready"])
  /\ \E ty \in {"VIEW_3D", "OUTLINER"} :
       areas = (1 :> [win |-> 0, type |-> ty, x |-> 0, y |-> 0, w |-> AreaSize, h |-> AreaSize,
                      regionWin |-> TRUE, space |-> DefaultSpace])
            @@ (2 :> [win |-> 0, type |-> "PROPERTIES", x |-> AreaSize, y |-> 0, w |-> AreaSize,
                      h |-> AreaSize, regionWin |-> TRUE, space |-> DefaultSpace])
  /\ setupTimer = <<>>
  /\ postFix = {}
  /\ last = NoLast

Next ==
  \/ \E ctx \in Contexts : DualExecute(ctx)
  \/ \E w \in 1..MaxWindows : DeferredSetup(w)
  \/ \E ctx \in Contexts : SplitCurrentExecute(ctx)
  \/ \E c \in postFix : PostFix(c)
  \/ \E m \in {"OBJECT", "EDIT"} : DrawInViewMenu([NoContext EXCEPT !.mode = m])
  \/ \E w \in 0..MaxWindows : HostWindowReady(w)
  \/ \E a \in 1..MaxAreas : HostExposeRegion(a)

Spec == Init /\ [][Next]_vars

\* the new-window operator alone, with the host's timer loop: a registered
\* callback is called once its interval is over
NextDual ==
  \/ \E ctx \in Contexts : DualExecute(ctx)
  \/ \E w \in 1..MaxWindows : DeferredSetup(w)
  \/ \E w \in 0..MaxWindows : HostWindowReady(w)
  \/ \E a \in 1..MaxAreas : HostExposeRegion(a)

LiveSpec ==
  Init /\ [][NextDual]_vars /\ \A w \in 1..MaxWindows : WF_vars(DeferredSetup(w))


\* ---- properties ----

Hidden(ars, a) == ars[a].space.shown \cap UIFlags = {}

SetupDone(l) == l.op = "deferred_setup" /\ l.ret = "done"

SplitFinished(l) == l.op = "split_execute" /\ l.ret = "FINISHED"

C2_SplitPair ==
  SplitFinished(last) =>
    LET t == last.a
        b == last.b
    IN /\ t # b
       /\ areas[t].type = "VIEW_3D" /\ areas[b].type = "VIEW_3D"
       /\ areas[t].y >= areas[b].y
       /\ areas[t].space.req = "FRONT" /\ areas[b].space.req = "RIGHT"
       /\ areas[t].space.persp = "ORTHO" /\ areas[b].space.persp = "ORTHO"
       /\ {t, b} = {last.left, last.new2}
       /\ last.left # last.new2
       /\ areas[last.left].x < areas[last.r].x
       /\ last.left \in {last.inv} \cup (DOMAIN areas \ last.pre)
       /\ last.new2 \notin last.pre \cup {last.r}

C2_Witness ==
  /\ SplitFinished(last)
  /\ last.left # last.inv
  /\ last.a = last.new2

\* C3: a run of the split-current operator, and of its _post_fix, leaves the
\* space settings of area_right and of every area that existed before the
\* invocation, other than the invoked area, as they were (area_right, when the
\* split made it, as the host copied them from the invoked area).
C3_OtherAreasKept ==
  [][last'.op \in {"split_execute", "post_fix"} =>
       /\ \A a \in (last'.pre \cap DOMAIN areas) \ {last'.inv} :
            areas'[a].space = areas[a].space
       /\ last'.r # 0 =>
            areas'[last'.r].space =
              IF last'.r \in DOMAIN areas THEN areas[last'.r].space
              ELSE areas[last'.inv].space]_vars

C3_Witness ==
  /\ SplitFinished(last)
  /\ last.pre \ {last.inv} # {}
  /\ last.r \notin last.pre

\* C4: the new-window operator runs only in OBJECT mode with an active object,
\* the split-current operator only when in addition the current area exists and
\* is a VIEW_3D, and the menu entry is drawn only in OBJECT mode.
C4_PollGates ==
  /\ last.op = "dual_execute" => last.pmode = "OBJECT" /\ last.pactive
  /\ last.op = "split_execute" =>
       /\ last.pmode = "OBJECT" /\ last.pactive
       /\ last.inv # 0 /\ last.ptype = "VIEW_3D"
  /\ (last.op = "draw_menu" /\ last.ret = "entry") => last.pmode = "OBJECT"

C4_Witness ==
  /\ last.op = "dual_execute"
  /\ last.win \in DOMAIN setupTimer
  /\ setupTimer[last.win] = "scheduled"

\* C5: the new-window operator returns CANCELLED exactly when window_new
\* raised, and then changes no window and registers no timer; otherwise it
\* returns FINISHED, whether or not the resize or the timer registration
\* succeeded.
C5_DualResult ==
  [][last'.op = "dual_execute" =>
       /\ last'.ret \in {"CANCELLED", "FINISHED"}
       /\ (last'.ret = "CANCELLED") <=> (last'.note = "window_new raised")
       /\ last'.ret = "CANCELLED" =>
            /\ windows' = windows
            /\ areas' = areas
            /\ setupTimer' = setupTimer
            /\ postFix' = postFix
       /\ last'.ret = "FINISHED" => last'.win \in DOMAIN windows' \ DOMAIN windows]_vars

C5_Witness ==
  /\ last.op = "dual_execute"
  /\ last.ret = "CANCELLED"

\* C6: the deferred setup of window w retries only when the window could not be
\* set up (no VIEW_3D area with a WINDOW region, or no split); if from some
\* point on the host lets a pending setup complete, the callback returns None,
\* and a callback that returned None stays unregistered.
Pending(w) == w \in DOMAIN setupTimer /\ setupTimer[w] = "scheduled"

Stopped(w) == w \in DOMAIN setupTimer /\ setupTimer[w] = "stopped"

CanComplete(w) ==
  /\ w \in DOMAIN windows
  /\ windows[w].phase = "ready"
  /\ LET area_a == FindWindowView3dArea(areas, w)
     IN /\ area_a # 0
        /\ GetWinRegion(areas, area_a)
        /\ Splittable(areas, area_a, "HORIZONTAL")

HostCooperates(w) == Pending(w) => CanComplete(w)

C6_RetryTerminates ==
  /\ [][\A w \in 1..MaxWindows :
          /\ (last'.op = "deferred_setup" /\ last'.win = w /\ last'.ret = "retry"
                 /\ Pending(w) /\ last' # last) => ~CanComplete(w)
          /\ Stopped(w) => Stopped(w)']_vars
  /\ \A w \in 1..MaxWindows :
        <>[]HostCooperates(w) => [](Pending(w) => <>Stopped(w))

C6_Witness ==
  /\ Stopped(1)
  /\ SetupDone(last)

\* C7: once the last deferred callback of either operator has run to its end,
\* both silhouette areas have header, tool header, toolbar, sidebar, gizmo,
\* navigation gizmo and overlays hidden, whatever the host re-enabled during the
\* view operations.
C7_HiddenAtCompletion ==
  (SetupDone(last) \/ last.op = "post_fix") =>
    Hidden(areas, last.a) /\ Hidden(areas, last.b)

C7_Witness ==
  /\ SetupDone(last)
  /\ "show_region_hud" \in areas[last.a].space.shown
  /\ Hidden(areas, last.a) /\ Hidden(areas, last.b)

====
